---- MODULE Spec2Model ----
(***************************************************************************)
(* Model of utils/ratelimit_utils.py: the RateLimit decorator (a fixed     *)
(* window call counter guarded by an RLock) and the sleep_and_retry        *)
(* decorator (catches RateLimitException, sleeps time_remaining, retries). *)
(* Each thread is a caller of the decorated function, either through       *)
(* sleep_and_retry (gated) or directly on the RateLimit wrapper.           *)
(***************************************************************************)
EXTENDS Integers, FiniteSets, Sequences, TLC

\* ---------------------------------------------------------------- bounds
MaxTime == 4
MaxCalls == 2
Interval == 2
MaxNumCalls == 3

\* callers of the decorated function: GatedThreads call it through
\* sleep_and_retry, the others call the RateLimit wrapper directly
Threads == {"t1", "t2", "t3"}
GatedThreads == {"t1", "t2"}
NoThread == "none"
gated == [t \in Threads |-> t \in GatedThreads]

VARIABLES
    calls,            \* RateLimit.calls
    interval,         \* RateLimit.interval
    raise_on_limit,   \* RateLimit.raise_on_limit
    now,              \* value returned by time.monotonic()
    last_reset,       \* RateLimit.last_reset
    num_calls,        \* RateLimit.num_calls
    lock,             \* owner of RateLimit.lock
    pc,               \* position of each caller thread
    accepting,        \* the callers may still start new calls
    period_remaining, \* local of RateLimit wrapper
    time_remaining,   \* RateLimitException.time_remaining of the raised exception
    sleepUntil,       \* clock value at which time.sleep returns
    execs,            \* history: executions of func in the current invoke
    rejects,          \* history: over-limit attempts of the current invoke (0, 1, many)
    readAt,           \* history: clock value read at line 99 of the current attempt
    readReset,        \* history: last_reset as read at line 99 of the current attempt
    attemptNo,        \* history: ordinal of the current attempt within its window
    winAttempts,      \* history: attempts made in the current window
    winAdmitted,      \* history: attempts admitted in the current window
    winRejected,      \* history: attempts found over the limit in the current window
    everReset,        \* history: a window reset has happened since construction
    lastReject,       \* trace: <<time_remaining, clock read, last_reset>> of the latest rejection
    recentAdmits      \* trace: clock reads of the admissions of the latest interval

vars == <<calls, interval, raise_on_limit, now, last_reset, num_calls, lock, pc,
          accepting, period_remaining, time_remaining, sleepUntil, execs, rejects,
          readAt, readReset, attemptNo, winAttempts, winAdmitted, winRejected, everReset,
          lastReject, recentAdmits>>

config == <<calls, interval, raise_on_limit, accepting>>
history == <<execs, rejects, readAt, readReset, attemptNo, winAttempts, winAdmitted,
             winRejected, everReset>>
trace == <<lastReject, recentAdmits>>

Min(a, b) == IF a < b THEN a ELSE b
Max(a, b) == IF a > b THEN a ELSE b

Terminal == {"done", "failed", "dropped", "rejected", "sleep_error"}
InLock == {"reset_check", "incr", "limit_check"}

\* ------------------------------------------------- RateLimit, pure parts
ElapsedSwapped(clock, lastReset) == lastReset - clock

\* line 99: elapsed = self.clock() - self.last_reset
Elapsed(clock, lastReset) == clock - lastReset

\* line 102: period_remaining = self.interval - elapsed
PeriodRemaining(intv, elapsed) == intv - elapsed

ShouldResetStrict(remaining) == remaining < 0

\* line 105: if period_remaining <= 0
ShouldReset(remaining) == remaining <= 0

OverLimitEarly(n, limit) == n >= limit
OverLimitLate(n, limit) == n > limit + 1

\* line 114: if self.num_calls > self.calls
OverLimit(n, limit) == n > limit

CanAcquireUnlocked(t) == TRUE

\* line 97: with self.lock (threading.RLock: free, or already owned by the caller)
CanAcquire(t) == lock = NoThread \/ lock = t

RetryCatchesNothing(exc) == FALSE
RetryCatchesAll(exc) == TRUE

\* line 161: except RateLimitException
RetryCatches(exc) == exc = "RateLimitException"

SleepDurationShort(remaining) == remaining - 1

\* line 163: time.sleep(exception.time_remaining)
SleepDuration(remaining) == remaining

ResetStartZero(clock) == 0
ResetStartNext(clock) == clock + interval

\* line 107: self.last_reset = self.clock()
ResetStart(clock) == clock

\* where an exception raised under the wrappers ends up for thread t
Raised(t, exc) == IF gated[t] /\ RetryCatches(exc) THEN "caught"
                  ELSE IF exc = "RateLimitException" THEN "rejected" ELSE "failed"

\* ------------------------------------------------------------------ Init
\* RateLimit.__init__ (lines 48-59), for the configurations of the model
Init ==
    /\ calls \in 0..MaxCalls
    /\ interval = Interval
    /\ raise_on_limit \in BOOLEAN
    /\ now = 0
    /\ last_reset = 0
    /\ num_calls = 0
    /\ lock = NoThread
    /\ pc = [t \in Threads |-> "idle"]
    /\ accepting = TRUE
    /\ period_remaining = [t \in Threads |-> 0]
    /\ time_remaining = [t \in Threads |-> 0]
    /\ sleepUntil = [t \in Threads |-> 0]
    /\ execs = [t \in Threads |-> 0]
    /\ rejects = [t \in Threads |-> 0]
    /\ readAt = [t \in Threads |-> 0]
    /\ readReset = [t \in Threads |-> 0]
    /\ attemptNo = [t \in Threads |-> 0]
    /\ winAttempts = 0
    /\ winAdmitted = 0
    /\ winRejected = 0
    /\ everReset = FALSE
    /\ lastReject = <<>>
    /\ recentAdmits = <<>>

\* --------------------------------------------------------------- actions
\* a caller starts a call of the decorated function, through sleep_and_retry
\* (line 158) or directly on the RateLimit wrapper (line 97)
Start(t) ==
    /\ pc[t] \in Terminal \cup {"idle"}
    /\ accepting
    /\ num_calls < MaxNumCalls
    /\ pc' = [pc EXCEPT ![t] = "attempting"]
    /\ execs' = [execs EXCEPT ![t] = 0]
    /\ rejects' = [rejects EXCEPT ![t] = 0]
    /\ time_remaining' = [time_remaining EXCEPT ![t] = 0]
    /\ attemptNo' = [attemptNo EXCEPT ![t] = 0]
    /\ UNCHANGED <<config, trace, now, last_reset, num_calls, lock, period_remaining,
                   sleepUntil, readAt, readReset, winAttempts, winAdmitted,
                   winRejected, everReset>>

\* lines 97-102: take the lock, read the clock, compute period_remaining
Acquire(t) ==
    /\ pc[t] = "attempting"
    /\ CanAcquire(t)
    /\ lock' = t
    /\ period_remaining' = [period_remaining EXCEPT
                              ![t] = PeriodRemaining(interval, Elapsed(now, last_reset))]
    /\ readAt' = [readAt EXCEPT ![t] = now]
    /\ readReset' = [readReset EXCEPT ![t] = last_reset]
    /\ LET elapsedWindow == now - last_reset >= interval
           n == IF elapsedWindow THEN 1 ELSE winAttempts + 1
       IN /\ attemptNo' = [attemptNo EXCEPT ![t] = n]
          /\ winAttempts' = n
          /\ winAdmitted' = IF elapsedWindow THEN 0 ELSE winAdmitted
          /\ winRejected' = IF elapsedWindow THEN 0 ELSE winRejected
    /\ pc' = [pc EXCEPT ![t] = "reset_check"]
    /\ UNCHANGED <<config, trace, now, last_reset, num_calls, time_remaining,
                   sleepUntil, execs, rejects, everReset>>

\* lines 105-107: reset the window when it has concluded
ResetCheck(t) ==
    /\ pc[t] = "reset_check"
    /\ IF ShouldReset(period_remaining[t])
         THEN /\ num_calls' = 0
              /\ last_reset' = ResetStart(now)
              /\ everReset' = TRUE
         ELSE UNCHANGED <<num_calls, last_reset, everReset>>
    /\ pc' = [pc EXCEPT ![t] = "incr"]
    /\ UNCHANGED <<config, trace, now, lock, period_remaining, time_remaining,
                   sleepUntil, execs, rejects, readAt, readReset, attemptNo,
                   winAttempts, winAdmitted, winRejected>>

\* line 110: self.num_calls += 1
Incr(t) ==
    /\ pc[t] = "incr"
    /\ num_calls' = num_calls + 1
    /\ pc' = [pc EXCEPT ![t] = "limit_check"]
    /\ UNCHANGED <<config, trace, now, last_reset, lock, period_remaining,
                   time_remaining, sleepUntil, history>>

CountRestored(n, over) == IF over THEN n - 1 ELSE n

\* lines 114-117: neither the raise nor the return touches num_calls, the
\* increment of line 110 stays in place
CountAfterLimit(n, over) == n

LockAfterCheckHeldForFunc(t, next) == IF next = "exec" THEN t ELSE NoThread

\* lines 97-119: raise, return and the end of the with block all release
\* the lock, before func is called and before the exception is handled
LockAfterCheck(t, next) == NoThread

AfterLimitAlwaysRaise(t, over, raising) ==
    IF over THEN Raised(t, "RateLimitException") ELSE "exec"

AfterLimitFallThrough(t, over, raising) ==
    IF over /\ raising THEN Raised(t, "RateLimitException") ELSE "exec"

\* lines 114-119: where the wrapper goes after the comparison with calls
AfterLimit(t, over, raising) ==
    IF over THEN (IF raising THEN Raised(t, "RateLimitException") ELSE "dropped")
    ELSE "exec"

\* lines 114-119: over the limit raise (or return None); otherwise leave the
\* with block and go on to call func. Every exit releases the lock.
LimitCheckCore(t) ==
    /\ pc[t] = "limit_check"
    /\ LET over == OverLimit(num_calls, calls)
       IN /\ pc' = [pc EXCEPT ![t] = AfterLimit(t, over, raise_on_limit)]
          /\ time_remaining' = [time_remaining EXCEPT
                  ![t] = IF over /\ raise_on_limit THEN period_remaining[t] ELSE 0]
          /\ winAdmitted' = IF pc'[t] = "exec" THEN winAdmitted + 1 ELSE winAdmitted
          /\ winRejected' = IF pc'[t] = "exec" THEN winRejected ELSE winRejected + 1
          /\ rejects' = [rejects EXCEPT
                  ![t] = IF pc'[t] = "exec" THEN rejects[t] ELSE Min(rejects[t] + 1, 2)]
          /\ num_calls' = CountAfterLimit(num_calls, over)
    /\ lock' = LockAfterCheck(t, pc'[t])
    /\ period_remaining' = [period_remaining EXCEPT ![t] = 0]
    /\ readAt' = [readAt EXCEPT ![t] = 0]
    /\ readReset' = [readReset EXCEPT ![t] = 0]
    /\ UNCHANGED <<config, now, last_reset, sleepUntil, execs,
                   attemptNo, winAttempts, everReset>>

LimitCheck(t) ==
    /\ LimitCheckCore(t)
    /\ UNCHANGED trace

\* line 119: func(*args, **kargs) returns a result or raises its own error
Execute(t) ==
    /\ pc[t] = "exec"
    /\ execs' = [execs EXCEPT ![t] = Min(execs[t] + 1, 2)]
    /\ \E ok \in BOOLEAN :
         pc' = [pc EXCEPT ![t] = IF ok THEN "done" ELSE Raised(t, "OperationError")]
    /\ UNCHANGED <<config, trace, now, last_reset, num_calls, lock, period_remaining,
                   time_remaining, sleepUntil, rejects, readAt, readReset, attemptNo,
                   winAttempts, winAdmitted, winRejected, everReset>>

\* lines 162-163: log, then time.sleep(exception.time_remaining); time.sleep
\* raises ValueError for a negative argument
Sleep(t) ==
    /\ pc[t] = "caught"
    /\ IF SleepDuration(time_remaining[t]) < 0
         THEN /\ pc' = [pc EXCEPT ![t] = "sleep_error"]
              /\ UNCHANGED sleepUntil
         ELSE /\ pc' = [pc EXCEPT ![t] = "sleeping"]
              /\ sleepUntil' = [sleepUntil EXCEPT ![t] = now + SleepDuration(time_remaining[t])]
    /\ UNCHANGED <<config, trace, now, last_reset, num_calls, lock, period_remaining,
                   time_remaining, history>>

\* line 163 returns, line 158 loops: the thread retries
Wake(t) ==
    /\ pc[t] = "sleeping"
    /\ now >= sleepUntil[t]
    /\ pc' = [pc EXCEPT ![t] = "attempting"]
    /\ sleepUntil' = [sleepUntil EXCEPT ![t] = 0]
    /\ time_remaining' = [time_remaining EXCEPT ![t] = 0]
    /\ UNCHANGED <<config, trace, now, last_reset, num_calls, lock, period_remaining,
                   history>>

\* the monotonic clock advances
Tick ==
    /\ now < MaxTime
    /\ now' = now + 1
    /\ UNCHANGED <<config, trace, last_reset, num_calls, lock, pc, period_remaining,
                   time_remaining, sleepUntil, history>>

Next ==
    \/ \E t \in Threads : Start(t)
    \/ \E t \in Threads : Acquire(t)
    \/ \E t \in Threads : ResetCheck(t)
    \/ \E t \in Threads : Incr(t)
    \/ \E t \in Threads : LimitCheck(t)
    \/ \E t \in Threads : Execute(t)
    \/ \E t \in Threads : Sleep(t)
    \/ \E t \in Threads : Wake(t)
    \/ Tick

Spec == Init /\ [][Next]_vars

\* ------------------------------------------------- unbounded time
\* The code only uses differences of clock values (lines 99, 102) and sleep
\* durations (line 163), so one unit of time passing is the same as every
\* stored clock value moving one unit into the past while the clock stays
\* put. Values older than interval + 1 behave alike and are kept at that age.
Older(x) == Max(x - 1, now - (interval + 1))

TickLive ==
    /\ last_reset' = Older(last_reset)
    /\ sleepUntil' = [t \in Threads |->
                        IF pc[t] = "sleeping" THEN Max(sleepUntil[t] - 1, now) ELSE 0]
    /\ readAt' = [t \in Threads |-> IF pc[t] \in InLock THEN Older(readAt[t]) ELSE 0]
    /\ readReset' = [t \in Threads |-> IF pc[t] \in InLock THEN Older(readReset[t]) ELSE 0]
    /\ UNCHANGED <<config, trace, now, num_calls, lock, pc, period_remaining, time_remaining,
                   execs, rejects, attemptNo, winAttempts, winAdmitted, winRejected,
                   everReset>>

\* the callers stop starting new calls (the batch loop of the caller ends)
Close ==
    /\ accepting
    /\ accepting' = FALSE
    /\ UNCHANGED <<trace, calls, interval, raise_on_limit, now, last_reset, num_calls, lock,
                   pc, period_remaining, time_remaining, sleepUntil, history>>

\* the steps of a thread inside the wrappers, after it got the lock
Step(t) ==
    \/ ResetCheck(t)
    \/ Incr(t)
    \/ LimitCheck(t)
    \/ Execute(t)
    \/ Sleep(t)
    \/ Wake(t)

InitLive ==
    /\ Init
    /\ calls >= 1
    /\ raise_on_limit

\* the callers of LiveSpec all go through sleep_and_retry
NextLive ==
    \/ \E t \in GatedThreads : Start(t)
    \/ \E t \in GatedThreads : Acquire(t)
    \/ \E t \in GatedThreads : Step(t)
    \/ TickLive
    \/ Close

\* every thread keeps running, a thread waiting for the lock gets it when it
\* is free again and again, and time keeps passing
Fairness ==
    /\ WF_vars(TickLive)
    /\ \A t \in GatedThreads : SF_vars(Acquire(t) \/ Step(t))

LiveSpec == InitLive /\ [][NextLive]_vars /\ Fairness

\* ------------------------------------------------- recorded outcomes
\* LimitCheck, with the outcome of the attempt recorded: the latest rejection
\* (what it carries, its clock read, the window it belongs to) and the clock
\* reads of the admissions no older than interval before the latest one
LimitCheckTraced(t) ==
    /\ LimitCheckCore(t)
    /\ lastReject' = IF pc'[t] \in {"caught", "rejected"}
                       THEN <<time_remaining'[t], readAt[t], last_reset>>
                       ELSE lastReject
    /\ recentAdmits' = IF pc'[t] = "exec"
                         THEN LET InSpan(a) == a >= readAt[t] - interval
                              IN Append(SelectSeq(recentAdmits, InSpan), readAt[t])
                         ELSE recentAdmits

NextTrace ==
    \/ \E t \in Threads : Start(t)
    \/ \E t \in Threads : Acquire(t)
    \/ \E t \in Threads : ResetCheck(t)
    \/ \E t \in Threads : Incr(t)
    \/ \E t \in Threads : LimitCheckTraced(t)
    \/ \E t \in Threads : Execute(t)
    \/ \E t \in Threads : Sleep(t)
    \/ \E t \in Threads : Wake(t)
    \/ Tick

TraceSpec == Init /\ [][NextTrace]_vars

\* ------------------------------------------------- a single caller
\* one thread makes all the calls, one after the other, through sleep_and_retry
SingleCaller == "t1"

NextSingle ==
    \/ Start(SingleCaller)
    \/ Acquire(SingleCaller)
    \/ Step(SingleCaller)
    \/ Tick

SingleSpec == Init /\ [][NextSingle]_vars

TypeOK ==
    /\ calls \in 0..MaxCalls
    /\ num_calls \in Nat
    /\ last_reset <= now
    /\ lock \in Threads \cup {NoThread}

\* ---------------------------------------------------------------- claims
Admitted == {"exec", "done", "failed"}
Refused == {"caught", "sleeping", "rejected", "sleep_error", "dropped"}
Quiescent == \A t \in Threads : pc[t] \notin InLock

\* C1: with raise_on_limit=True at most `calls` attempts are admitted between
\* two consecutive window resets, whatever the interleaving: an admitted
\* attempt is one of the first `calls` attempts of its window, and an attempt
\* that was refused is never one of them (the calls-th attempt is admitted,
\* the (calls+1)-th is rejected).
C1_AtMostCallsPerWindow ==
    raise_on_limit =>
        /\ winAdmitted <= calls
        /\ \A t \in Threads :
             /\ pc[t] \in Admitted => attemptNo[t] <= calls
             /\ pc[t] \in Refused => attemptNo[t] > calls

C1_Witness ==
    /\ raise_on_limit
    /\ calls >= 1
    /\ winAdmitted = calls
    /\ \E t, u \in Threads :
         /\ pc[t] = "rejected" /\ attemptNo[t] = calls + 1
         /\ pc[u] \in Admitted /\ attemptNo[u] = calls

\* C2: on a fresh Limiter (no reset yet, still inside the first window) the
\* check is one critical section: at most one thread is between the clock
\* read and the comparison, and once the racing attempts are over exactly
\* min(attempts, calls) of them were admitted and all the others rejected.
C2_ExactlyCallsAdmittedFresh ==
    /\ Cardinality({t \in Threads : pc[t] \in InLock}) <= 1
    /\ (~everReset /\ now < interval /\ Quiescent) =>
          /\ winAdmitted = Min(winAttempts, calls)
          /\ winRejected = winAttempts - winAdmitted

C2_Witness ==
    /\ ~everReset /\ now < interval /\ Quiescent
    /\ calls >= 1
    /\ winAttempts = Cardinality(Threads)
    /\ winAttempts > calls
    /\ winAdmitted = calls
    /\ winRejected = winAttempts - calls

\* C5: while no more than `calls` attempts have been made in the current
\* window (the initial window included), every one of them was admitted.
C5_AllAdmittedUpToLimit ==
    (Quiescent /\ winAttempts <= calls) =>
        /\ winAdmitted = winAttempts
        /\ winRejected = 0

C5_Witness ==
    /\ Quiescent /\ ~everReset
    /\ calls = MaxCalls
    /\ winAttempts = calls
    /\ winAdmitted = calls

\* C6: an attempt that is the K-th of its window with K > calls and that read
\* the clock before the window elapsed is not admitted, and when the limiter
\* raises, the exception carries interval - (now - last_reset), now being the
\* clock value read in that attempt and last_reset the last reset time.
C6_RejectedWithTimeRemaining ==
    [][\A t \in Threads :
         (/\ pc[t] = "limit_check" /\ pc'[t] # "limit_check"
          /\ attemptNo[t] > calls
          /\ readAt[t] - readReset[t] < interval)
         => /\ pc'[t] \in Refused
            /\ raise_on_limit =>
                 /\ pc'[t] \in {"caught", "rejected"}
                 /\ time_remaining'[t] = interval - (readAt[t] - last_reset)]_vars

C6_Witness ==
    \E t \in Threads :
        /\ pc[t] \in {"caught", "rejected"}
        /\ calls >= 1
        /\ attemptNo[t] > calls
        /\ time_remaining[t] > 0 /\ time_remaining[t] < interval

\* C7: when interval or more has elapsed since the last reset at the clock read
\* of an attempt (calls >= 1), the attempt is admitted and leaves num_calls = 1
\* and last_reset at the clock value of the reset, whatever num_calls was.
C7_ResetAdmitsWithCountOne ==
    [][\A t \in Threads :
         (/\ pc[t] = "limit_check" /\ pc'[t] # "limit_check"
          /\ readAt[t] - readReset[t] >= interval
          /\ calls >= 1)
         => /\ pc'[t] = "exec"
            /\ num_calls' = 1
            /\ last_reset' >= readAt[t] /\ last_reset' <= now]_vars

C7_Witness ==
    \E t, u \in Threads :
        /\ calls >= 1
        /\ pc[t] = "limit_check"
        /\ readAt[t] - readReset[t] >= interval
        /\ num_calls = 1 /\ last_reset >= readAt[t]
        /\ pc[u] = "rejected" /\ attemptNo[u] > calls + 1

\* C3 as stated: a call through sleep_and_retry never ends with a
\* RateLimitException, and it only ends with the operation's result or the
\* operation's own failure (calls >= 1).
C3_OnlyDoneOrFailed ==
    calls >= 1 =>
        \A t \in Threads :
            gated[t] => /\ pc[t] # "rejected"
                        /\ pc[t] \in Terminal => pc[t] \in {"done", "failed"}

\* C3 (amended): a call through sleep_and_retry never ends with a
\* RateLimitException in any configuration; with raise_on_limit=True and
\* calls >= 1 it only ends with the operation's result or the operation's own
\* failure.
C3_NoRateLimitEscapes ==
    \A t \in Threads :
        gated[t] => /\ pc[t] # "rejected"
                    /\ (raise_on_limit /\ calls >= 1 /\ pc[t] \in Terminal)
                         => pc[t] \in {"done", "failed"}

C3_Witness ==
    \E t \in Threads :
        /\ gated[t] /\ raise_on_limit /\ calls >= 1
        /\ pc[t] \in {"done", "failed"}
        /\ rejects[t] >= 1

\* C8: a failure of the wrapped operation ends the gated invoke at once: the
\* thread takes no further attempt, sleep or execution before a new invoke is
\* started, and only a rate limit rejection leads to the retry path.
C8_OperationFailureNotRetried ==
    [][\A t \in Threads :
         gated[t] =>
           /\ (pc[t] = "exec" /\ pc'[t] \notin {"exec", "done"}) => pc'[t] = "failed"
           /\ (pc[t] = "failed" /\ pc'[t] # "failed")
                => (pc'[t] = "attempting" /\ execs'[t] = 0 /\ rejects'[t] = 0)
           /\ (pc[t] = "failed" /\ pc'[t] = "failed")
                => (execs'[t] = execs[t] /\ sleepUntil'[t] = sleepUntil[t])
           /\ (pc'[t] = "caught" /\ pc[t] # "caught") => pc[t] = "limit_check"]_vars

C8_Witness ==
    \E t \in Threads :
        /\ gated[t] /\ pc[t] = "failed" /\ execs[t] = 1 /\ rejects[t] >= 1

\* C9: within one invoke the operation runs at most once and only directly
\* after an admitted attempt of that invoke; a refused attempt never runs it,
\* an invoke that is done has run it exactly once, and the thread follows
\* attempting -> exec -> done/failed or attempting -> (caught) sleeping -> attempting.
C9_ExecutedOnceAfterAdmission ==
    [][\A t \in Threads :
         /\ (pc'[t] = "exec" /\ pc[t] # "exec")
              => (pc[t] = "limit_check" /\ attemptNo[t] <= calls /\ execs[t] = 0)
         /\ execs'[t] # execs[t]
              => \/ (pc[t] = "exec" /\ execs'[t] = execs[t] + 1)
                 \/ (pc'[t] = "attempting" /\ execs'[t] = 0)
         /\ execs'[t] <= 1
         /\ pc'[t] = "done" => execs'[t] = 1
         /\ pc'[t] \in Refused => execs'[t] = 0
         /\ pc[t] = "exec" => pc'[t] \in {"exec", "done", "failed"}
         /\ pc[t] = "caught" => pc'[t] \in {"caught", "sleeping", "sleep_error"}
         /\ pc[t] = "sleeping" => pc'[t] \in {"sleeping", "attempting"}]_vars

C9_Witness ==
    \E t \in Threads :
        /\ gated[t] /\ raise_on_limit
        /\ pc[t] = "done" /\ execs[t] = 1 /\ rejects[t] = 1

\* C10: after a rejection (calls >= 1) the gated thread sleeps, the sleep lasts
\* the time_remaining of the exception, and the thread leaves the sleep only
\* for its next attempt and only once the clock has passed the whole
\* duration; while asleep it neither attempts nor runs the operation.
C10_SleepsWholeTimeRemaining ==
    [][\A t \in Threads :
         /\ (pc[t] = "caught" /\ pc'[t] # "caught" /\ calls >= 1)
              => (pc'[t] = "sleeping" /\ sleepUntil'[t] = now + time_remaining[t])
         /\ pc[t] = "sleeping"
              => \/ /\ pc'[t] = "sleeping"
                    /\ execs'[t] = execs[t]
                    /\ attemptNo'[t] = attemptNo[t]
                    /\ lock' # t
                 \/ /\ pc'[t] = "attempting"
                    /\ now >= sleepUntil[t]]_vars

C10_Witness ==
    \E t \in Threads :
        /\ calls >= 1
        /\ pc[t] = "sleeping"
        /\ time_remaining[t] > 0
        /\ now >= sleepUntil[t]

Pending(t) == gated[t] /\ pc[t] \notin (Terminal \cup {"idle"})
Executed(t) == pc[t] \in {"done", "failed"}

\* C4 as stated: with calls >= 1, an advancing clock and fair scheduling,
\* every started gated invoke eventually runs the operation, also when
\* several threads compete for the Limiter.
C4_EveryInvokeExecutes ==
    \A t \in Threads : Pending(t) ~> Executed(t)

\* C4 (amended): once the callers have stopped starting new calls, every
\* gated invoke that is still under way eventually runs the operation.
C4_ExecutesOnceLoadEnds ==
    \A t \in Threads : (~accepting /\ Pending(t)) ~> Executed(t)

C4_Witness ==
    \E t \in Threads :
        /\ ~accepting
        /\ gated[t] /\ pc[t] = "done" /\ rejects[t] >= 1
        /\ \E u \in Threads \ {t} : Pending(u) /\ rejects[u] >= 1

\* C11: with raise_on_limit=False an attempt beyond `calls` in its window is
\* dropped: no exception is raised, func is not run, nothing is slept, and
\* the call (gated or not) is over at once; the thread's next step can only
\* be the start of a new call.
C11_DroppedSilently ==
    [][\A t \in Threads :
         /\ (/\ ~raise_on_limit
             /\ pc[t] = "limit_check" /\ pc'[t] # "limit_check"
             /\ attemptNo[t] > calls)
            => /\ pc'[t] = "dropped"
               /\ time_remaining'[t] = 0
               /\ execs'[t] = 0
               /\ sleepUntil'[t] = sleepUntil[t]
         /\ pc[t] = "dropped"
            => \/ (pc'[t] = "dropped" /\ execs'[t] = execs[t])
               \/ (pc'[t] = "attempting" /\ rejects'[t] = 0)]_vars

C11_Witness ==
    \E t \in GatedThreads :
        /\ ~raise_on_limit /\ calls >= 1
        /\ pc[t] = "dropped"
        /\ attemptNo[t] = calls + 1
        /\ execs[t] = 0

\* C12: num_calls is the number of attempts made in the current window, the
\* resetting attempt included and admitted and rejected ones together: a
\* rejection leaves its increment in place (num_calls = admitted + rejected).
C12_CountsEveryAttempt ==
    (\A t \in Threads : pc[t] \notin {"reset_check", "incr"}) =>
        /\ num_calls = winAttempts
        /\ Quiescent => num_calls = winAdmitted + winRejected

C12_Witness ==
    /\ Quiescent
    /\ calls >= 1
    /\ winAdmitted = calls
    /\ winRejected >= 2
    /\ num_calls = calls + winRejected

\* C13 as stated: an attempt that finds the window elapsed sets num_calls = 0
\* and last_reset = now, and a rejection raised by that same attempt carries
\* time_remaining = interval.
C13_ResetRemainingIsInterval ==
    [][\A t \in Threads :
         /\ (/\ pc[t] = "reset_check" /\ pc'[t] = "incr"
             /\ readAt[t] - readReset[t] >= interval)
            => (num_calls' = 0 /\ last_reset' = now)
         /\ (/\ pc[t] = "limit_check" /\ pc'[t] \in {"caught", "rejected"}
             /\ readAt[t] - readReset[t] >= interval)
            => time_remaining'[t] = interval]_vars

\* C15: num_calls is never negative, last_reset is never later than the
\* clock, and last_reset never decreases.
C15_CountAndStartSane ==
    /\ [](num_calls >= 0 /\ last_reset <= now)
    /\ [][last_reset' >= last_reset]_vars

C15_Witness ==
    \E t \in Threads :
        /\ pc[t] = "limit_check"
        /\ readReset[t] = interval
        /\ readAt[t] - readReset[t] = interval
        /\ last_reset = readAt[t]
        /\ num_calls = 1

\* C16: num_calls and last_reset change only inside an admission check (not
\* by the clock, a sleep or the execution of func); the check of lines
\* 105-107 resets num_calls to 0 and last_reset to the clock exactly when
\* interval or more has elapsed, and otherwise leaves both as they are.
C16_LazyReset ==
    [][/\ (last_reset' # last_reset \/ num_calls' < num_calls)
            => \E t \in Threads : /\ pc[t] = "reset_check" /\ pc'[t] = "incr"
                                  /\ readAt[t] - readReset[t] >= interval
       /\ num_calls' # num_calls
            => \E t \in Threads : pc[t] \in {"reset_check", "incr"} /\ pc'[t] # pc[t]
       /\ \A t \in Threads :
            (pc[t] = "reset_check" /\ pc'[t] = "incr")
              => IF readAt[t] - readReset[t] >= interval
                   THEN num_calls' = 0 /\ last_reset' = now
                   ELSE num_calls' = num_calls /\ last_reset' = last_reset]_vars

C16_Witness ==
    \E t, u \in Threads :
        /\ pc[t] = "incr" /\ num_calls = 0
        /\ last_reset = now /\ now >= interval
        /\ pc[u] = "sleeping"

\* C17: the lock is owned only by a thread between its clock read and its
\* comparison with calls; a thread that sleeps or runs func does not own
\* it, so whenever no thread is inside the check the lock is free for the
\* next attempt.
C17_LockOnlyInCheck ==
    /\ \A t \in Threads : pc[t] \notin InLock => lock # t
    /\ (Quiescent /\ \E t \in Threads : pc[t] = "attempting") => lock = NoThread

C17_Witness ==
    \E t, u, v \in Threads :
        /\ pc[t] = "sleeping"
        /\ pc[v] = "exec"
        /\ pc[u] = "limit_check" /\ lock = u

\* C18: with a single caller and calls >= 1 an invoke is rejected at most
\* once: the retry after the sleep finds the window elapsed, resets it and
\* is admitted as attempt 1 with num_calls = 1.
C18_SingleCallerRejectedOnce ==
    calls >= 1 =>
        /\ rejects[SingleCaller] <= 1
        /\ (rejects[SingleCaller] = 1 /\ pc[SingleCaller] = "limit_check")
             => /\ readAt[SingleCaller] - readReset[SingleCaller] >= interval
                /\ num_calls = 1
        /\ (rejects[SingleCaller] = 1 /\ pc[SingleCaller] = "exec")
             => (attemptNo[SingleCaller] = 1 /\ num_calls = 1)

C18_Witness ==
    /\ raise_on_limit /\ calls >= 2
    /\ pc[SingleCaller] = "exec"
    /\ rejects[SingleCaller] = 1
    /\ num_calls = 1

\* C14: with calls >= 1 every rejection carries a time_remaining that is
\* positive and at most interval, and a rejection that follows another one
\* of the same window carries no more than it, and strictly less when the
\* clock has advanced between the two clock reads.
C14_PositiveDecreasingRemaining ==
    [][\A t \in Threads :
         (calls >= 1 /\ pc[t] = "limit_check" /\ pc'[t] \in {"caught", "rejected"})
         => /\ time_remaining'[t] > 0
            /\ time_remaining'[t] <= interval
            /\ (lastReject # <<>> /\ lastReject[3] = last_reset)
                 => /\ time_remaining'[t] <= lastReject[1]
                    /\ readAt[t] >= lastReject[2]
                    /\ readAt[t] > lastReject[2] => time_remaining'[t] < lastReject[1]]_vars

C14_Witness ==
    \E t, u \in Threads :
        /\ calls = 1 /\ ~everReset
        /\ pc[u] \in {"caught", "sleeping", "rejected"}
        /\ attemptNo[u] = 2 /\ time_remaining[u] = interval
        /\ pc[t] = "rejected"
        /\ attemptNo[t] = 3 /\ time_remaining[t] < interval /\ time_remaining[t] > 0
        /\ lastReject = <<time_remaining[t], interval - time_remaining[t], 0>>

\* C19: two consecutive window resets are at least interval apart, and the
\* admissions whose clock reads lie within any span of length interval are
\* at most 2 * calls, for every interleaving of the callers.
C19_AtMostTwiceCallsPerSpan ==
    /\ [](Len(recentAdmits) <= 2 * calls)
    /\ [][last_reset' # last_reset => last_reset' - last_reset >= interval]_vars

C19_Witness ==
    /\ calls >= 2
    /\ everReset
    /\ Len(recentAdmits) = 2 * calls
    /\ recentAdmits[Len(recentAdmits)] - recentAdmits[1] <= interval

====
